---- MODULE Spec2Model ----
(***************************************************************************)
(* A model of rig, an AMD module loader (src/src/rig.js with the DOM       *)
(* runtime at its head and the Node.js runtime of src/src/node-impl.js).   *)
(*                                                                         *)
(* JavaScript strings are sequences of one-character strings, so that the  *)
(* prefix tests, splits and joins of the identifier code are computed as   *)
(* the code computes them.  The empty sequence stands for both '' and      *)
(* undefined where the code only tests truthiness.  Module objects live in *)
(* a heap (a sequence); a module reference is an index, 0 is undefined.    *)
(*                                                                         *)
(* A handler of the event loop (a timer, a script load, a call of the      *)
(* public API) runs to completion: each is one action, computed by         *)
(* operators that take the program state as a record and return the state  *)
(* the handler leaves.                                                     *)
(***************************************************************************)
EXTENDS Naturals, Integers, Sequences, FiniteSets, TLC

\* ------------------------------------------------------------------------
\* Strings

s_require == <<"r", "e", "q", "u", "i", "r", "e">>
s_exports == <<"e", "x", "p", "o", "r", "t", "s">>
s_module == <<"m", "o", "d", "u", "l", "e">>
s_http == <<"h", "t", "t", "p", ":", "/", "/">>
s_https == <<"h", "t", "t", "p", "s", ":", "/", "/">>
s_file == <<"f", "i", "l", "e", ":", "/", "/", "/">>

\* The characters of the model in code-unit order (String.prototype sort).
Alphabet == <<".", "/", ":", "a", "b", "c", "d", "e", "f", "g", "h", "i",
              "j", "k", "l", "m", "n", "o", "p", "q", "r", "s", "t", "u",
              "v", "w", "x", "y", "z">>

CharCode(c) == CHOOSE i \in 1..Len(Alphabet) : Alphabet[i] = c

\* a < b for strings, as Array.prototype.sort compares them.
RECURSIVE StrLess(_, _)
StrLess(a, b) ==
  IF a = <<>> THEN b # <<>>
  ELSE IF b = <<>> THEN FALSE
  ELSE IF Head(a) = Head(b) THEN StrLess(Tail(a), Tail(b))
  ELSE CharCode(Head(a)) < CharCode(Head(b))

\* id.indexOf(p) === 0
StartsWith(s, p) == Len(p) <= Len(s) /\ SubSeq(s, 1, Len(p)) = p

\* s.substr(n)
substr(s, n) == SubSeq(s, n + 1, Len(s))

\* s.split(sep): the terms between the separators; '' splits to [''].
RECURSIVE splitFrom(_, _, _, _)
splitFrom(s, sep, i, cur) ==
  IF i > Len(s) THEN <<cur>>
  ELSE IF s[i] = sep THEN <<cur>> \o splitFrom(s, sep, i + 1, <<>>)
  ELSE splitFrom(s, sep, i + 1, Append(cur, s[i]))

split(s) == splitFrom(s, "/", 1, <<>>)

\* terms.join('/')
RECURSIVE join(_)
join(terms) ==
  IF terms = <<>> THEN <<>>
  ELSE IF Len(terms) = 1 THEN terms[1]
  ELSE terms[1] \o <<"/">> \o join(Tail(terms))

\* The length of the protocol that ABSOLUTE_PATH_RE matches at the head of
\* s, 0 when the expression does not match (exec returns null).
protocolLength(s) ==
  IF StartsWith(s, <<"/", "/">>) THEN 2
  ELSE IF StartsWith(s, <<"/">>) THEN 1
  ELSE IF StartsWith(s, s_http) THEN Len(s_http)
  ELSE IF StartsWith(s, s_https) THEN Len(s_https)
  ELSE IF StartsWith(s, s_file) THEN Len(s_file)
  ELSE 0

ABSOLUTE_PATH_RE(s) == protocolLength(s) > 0

RELATIVE_PATH_RE(s) ==
  StartsWith(s, <<".", "/">>) \/ StartsWith(s, <<".", ".", "/">>)

\* The directory from which unqualified ids are resolved (location.href
\* without its last term, process.cwd() under Node.js).
wd == <<"/", "w">>

\* ------------------------------------------------------------------------
\* Identifier resolution

RECURSIVE normalizeTermsFrom(_, _, _)
normalizeTermsFrom(terms, x, normalized) ==
  IF x > Len(terms) THEN normalized
  ELSE LET term == terms[x] IN
    IF term = <<".">> \/ term = <<>>
      THEN normalizeTermsFrom(terms, x + 1, normalized)
    ELSE IF term = <<".", ".">>
      THEN normalizeTermsFrom(terms, x + 1,
             IF normalized = <<>> THEN <<>>
             ELSE SubSeq(normalized, 1, Len(normalized) - 1))
    ELSE normalizeTermsFrom(terms, x + 1, Append(normalized, term))

keepTerms(terms) == terms

normalizeTerms(terms) == normalizeTermsFrom(terms, 1, <<>>)

\* wd + '/' + baseUrl
baseDirectory(base) == wd \o <<"/">> \o base

fqid(base, id, opt_relativeTo) ==
  LET n == protocolLength(id) IN
  IF n > 0
    THEN SubSeq(id, 1, n) \o join(normalizeTerms(split(substr(id, n))))
  ELSE
    LET relativeTo ==
          IF RELATIVE_PATH_RE(id)
            THEN IF ~ABSOLUTE_PATH_RE(opt_relativeTo)
                   THEN baseDirectory(base) \o <<"/">> \o opt_relativeTo
                   ELSE opt_relativeTo
            ELSE baseDirectory(base)
        k == protocolLength(relativeTo)
        protocol == SubSeq(relativeTo, 1, k)
        baseline == substr(relativeTo, k)
    IN protocol \o join(normalizeTerms(split(baseline \o <<"/">> \o id)))

normalize(base, id, opt_relativeTo) ==
  LET b == baseDirectory(base)
      k == protocolLength(b)
      baseline == SubSeq(b, 1, k) \o join(normalizeTerms(split(substr(b, k))))
      p == fqid(base, id, opt_relativeTo)
  IN IF StartsWith(p, baseline) THEN substr(p, Len(baseline) + 1) ELSE p

\* Finite maps (JavaScript objects used as dictionaries).
Get(f, k, none) == IF k \in DOMAIN f THEN f[k] ELSE none

Put(f, k, v) == [x \in DOMAIN f \cup {k} |-> IF x = k THEN v ELSE f[x]]

Delete(f, k) == [x \in DOMAIN f \ {k} |-> f[x]]

EmptyMap == [x \in {} |-> 0]

\* Object.keys(paths).sort().reverse()
RECURSIVE sortedDescending(_)
sortedDescending(keys) ==
  IF keys = {} THEN <<>>
  ELSE LET top == CHOOSE k \in keys : \A j \in keys \ {k} : StrLess(j, k)
       IN <<top>> \o sortedDescending(keys \ {top})

pathsBySpecificity(pathsMap) == sortedDescending(DOMAIN pathsMap)

aliasMatchShortest(pathsMap, id) ==
  LET keys == pathsBySpecificity(pathsMap)
      hits == {x \in 1..Len(keys) : StartsWith(id, keys[x])}
  IN IF hits = {} THEN 0 ELSE CHOOSE x \in hits : \A y \in hits : x >= y

\* The index of the first key of pathsBySpecificity that id starts with,
\* 0 when there is none.
aliasMatch(pathsMap, id) ==
  LET keys == pathsBySpecificity(pathsMap)
      hits == {x \in 1..Len(keys) : StartsWith(id, keys[x])}
  IN IF hits = {} THEN 0 ELSE CHOOSE x \in hits : \A y \in hits : x <= y

aliasWithoutPaths(base, pathsMap, id, opt_relativeTo) ==
  normalize(base, id, opt_relativeTo)

\* alias(id, opt_relativeTo), its value.
alias(base, pathsMap, id, opt_relativeTo) ==
  LET x == aliasMatch(pathsMap, id) IN
  IF x = 0 THEN normalize(base, id, opt_relativeTo)
  ELSE
    LET p == pathsBySpecificity(pathsMap)[x]
        target == pathsMap[p]
        k == protocolLength(target)
        terms == split(substr(target, k)) \o
                 (IF Len(id) > Len(p) THEN split(substr(id, Len(p)))
                  ELSE <<>>)
    IN normalize(base, join(terms), <<>>)

\* alias(id, opt_relativeTo), its effect on the aliases map.
aliasRecord(base, pathsMap, aliasesMap, id) ==
  IF aliasMatch(pathsMap, id) = 0 THEN aliasesMap
  ELSE Put(aliasesMap, alias(base, pathsMap, id, <<>>), id)

dirname(aliasesMap, id) ==
  IF id = <<>> THEN <<>>
  ELSE LET a == Get(aliasesMap, id, <<>>)
           terms == split(IF a # <<>> THEN a ELSE id)
       IN join(SubSeq(terms, 1, Len(terms) - 1))

\* ------------------------------------------------------------------------
\* Values, factories and modules

\* A JavaScript value as the loader sees it: undefined, or an object known
\* by its identity (the kind of object, the module it belongs to, a number).
Undefined == [k |-> "undefined", m |-> 0, n |-> 0, p |-> <<>>]

Object(k, m, n) == [k |-> k, m |-> m, n |-> n, p |-> <<>>]

\* A factory: fn names the function, ret says what a call returns
\* ("undefined", "fresh": a new object, "fixed": the object out), arity is
\* fn.length and scan lists the require('...') literals of its source text.
\* body lists the calls of the public API that the function makes the first
\* time it runs.  ret = "none" stands for no function.
NoFactory ==
  [fn |-> "", ret |-> "none", arity |-> 0, scan |-> <<>>, out |-> Undefined,
   body |-> <<>>]

Function(fn, ret, arity) ==
  [fn |-> fn, ret |-> ret, arity |-> arity, scan |-> <<>>, out |-> Undefined,
   body |-> <<>>]

\* function () { return value; }
Constantly(fn, value) ==
  [fn |-> fn, ret |-> "fixed", arity |-> 0, scan |-> <<>>, out |-> value,
   body |-> <<>>]

\* A shim entry: an array of ids, or { deps, init, exports }.
NoShim == [isArray |-> FALSE, deps |-> <<>>, init |-> NoFactory,
           exports |-> <<>>]

ShimTrue == <<"true">>

\* new Module(id, dependencies, factory).  shared says that the module's
\* dependencies array is the COMMON_JS_DEPENDENCIES array itself.  The
\* fields after shimmed record the calls of the factory: how many, and at
\* the last one its arguments, the modules in the slots, the dependency
\* ids, whether every slot held a defined module and whether the call was
\* made inside the require() call that created the module; broken says
\* that the cycle break of removeDependency was applied to the module, and
\* unmetAtBreak holds the numbers of empty slots it then had.
\* registered, drained and immediate record the define-listeners of the
\* module: those pushed on its list, those that the loop of P.define has
\* called and those that addDefineListener has called at once, each in the
\* order in which it happened.  held is the set of the values that exports
\* has had, and reassigned says that P.define has given exports another
\* value when the module was defined already.  ran lists the functions that
\* P.define has applied; globalThen and loadedThen are the names on the
\* global object when P.define set defined, and whether the backend had
\* then answered a fetch of the module's id and had none of it in flight.
\* given is the id that the constructor got, and adopted holds the ids with
\* which onLoad has found the module in onLoad.module, delivered the ids
\* with which onLoad has handed the module to the listeners of a fetch,
\* queued the ids on whose list of listeners load has put the module.
\* placed says that define() has stored the module in onLoad.module.
\* started has one entry for each call of the backend that removeDependency
\* has made for the module: whether every slot then held a defined module.
Module(n, id, dependencies, shared, factory) ==
  [id |-> id,
   dependencies |-> IF shared THEN <<>> ELSE dependencies,
   shared |-> shared,
   factory |-> factory,
   listeners |-> <<>>,
   exports |-> Object("exports", n, 0),
   modules |-> [x \in 1..Len(dependencies) |-> 0],
   defined |-> FALSE,
   shimmed |-> <<>>,
   calls |-> 0,
   argv |-> <<>>,
   argModules |-> <<>>,
   argIds |-> <<>>,
   argsDefined |-> TRUE,
   sync |-> FALSE,
   broken |-> FALSE,
   unmetAtBreak |-> {},
   registered |-> <<>>,
   drained |-> <<>>,
   immediate |-> <<>>,
   held |-> {Object("exports", n, 0)},
   reassigned |-> FALSE,
   given |-> id,
   adopted |-> {},
   delivered |-> {},
   queued |-> {},
   placed |-> FALSE,
   started |-> <<>>,
   ran |-> <<>>,
   globalThen |-> {},
   loadedThen |-> FALSE]

newModule(s, id, dependencies, shared, factory) ==
  [s EXCEPT !.heap = Append(@, Module(Len(s.heap) + 1, id, dependencies,
                                      shared, factory))]

\* this.dependencies
dependenciesOf(s, m) ==
  IF s.heap[m].shared THEN s.COMMON_JS_DEPENDENCIES
  ELSE s.heap[m].dependencies

setDependency(s, m, x, id) ==
  IF s.heap[m].shared
    THEN [s EXCEPT !.COMMON_JS_DEPENDENCIES[x] = id]
    ELSE [s EXCEPT !.heap[m].dependencies[x] = id]

Range(seq) == {seq[x] : x \in 1..Len(seq)}

\* array[x] = v, growing the array when x is beyond its end.
setAt(array, x, v) ==
  [y \in 1..(IF x > Len(array) THEN x ELSE Len(array)) |->
     IF y = x THEN v ELSE IF y <= Len(array) THEN array[y] ELSE 0]

\* Every exception of the loader is a TypeError: the ones it throws itself
\* (throw TypeError(...)) and the ones that reading a property of undefined
\* raises.
throw(s) == [s EXCEPT !.err = TRUE, !.error = "TypeError"]

\* loader(ids, callback): the backend starts a fetch; cb is "onLoad" or
\* "define" (tie(P.define, m)).
loader(s, normalized, cb, m) ==
  [s EXCEPT
     !.fetches = @ \cup {[normalized |-> normalized,
                          fqid |-> fqid(s.baseUrl, normalized, <<>>),
                          cb |-> cb, m |-> m]},
     !.issued = Put(@, <<cb, normalized>>,
                    Get(@, <<cb, normalized>>, 0) + 1)]

\* resolve(identifier): the walk down the global object.
RECURSIVE resolveFrom(_, _, _)
resolveFrom(global, terms, x) ==
  IF SubSeq(terms, 1, x) \notin global THEN Undefined
  ELSE IF x = Len(terms)
    THEN [k |-> "global", m |-> 0, n |-> 0, p |-> terms]
  ELSE resolveFrom(global, terms, x + 1)

resolve(global, identifier) ==
  resolveFrom(global, splitFrom(identifier, ".", 1, <<>>), 1)

\* ------------------------------------------------------------------------
\* The state of the program

VARIABLES
  heap,                    \* the Module objects, in the order of creation
  cache,                   \* cache: id -> module
  listeners,               \* listeners: id -> the modules waiting for the load
  loading,                 \* loading: id -> true
  onLoad_module,           \* onLoad.module
  aliases,                 \* aliases: canonical id -> aliased id
  baseUrl, paths, shim,    \* the Common Config variables
  COMMON_JS_DEPENDENCIES,  \* the array of free variable names
  global,                  \* the dotted names defined on the global object
  timers,                  \* the timers set and not fired, oldest first
  fetches,                 \* the fetches the backend has not answered
  issued,                  \* <<callback, id>> -> the calls of the backend
  completed,               \* id -> the number of calls of onLoad
  joined,                  \* id -> the callbacks pushed on listeners[id]
  notified,                \* id -> the callbacks that onLoad has called
  world,                   \* the name of the environment
  made,                    \* the calls of the program made so far
  last                     \* the outcome of the handler that ran last

vars == <<heap, cache, listeners, loading, onLoad_module, aliases, baseUrl,
          paths, shim, COMMON_JS_DEPENDENCIES, global, timers, fetches,
          issued, completed, joined, notified, world, made, last>>

\* ------------------------------------------------------------------------
\* Module: the handlers.  Each takes the program state s and returns the
\* state it leaves; s.err says that an exception is propagating, and every
\* handler then returns at once.  A handler calls another through
\* tie(h, s, arguments), which applies the handler named h.

RECURSIVE tie(_, _, _)

runAtOnce(s, kind, m, dep) ==
  tie("timer", s, <<[kind |-> kind, m |-> m, dep |-> dep]>>)

setTimeout(s, kind, m, dep) ==
  [s EXCEPT !.timers = Append(@, [kind |-> kind, m |-> m, dep |-> dep])]

\* module.id === dependency
namesAny(s, module, dependency) == TRUE

namesModule(s, module, dependency) == s.heap[module].id = dependency

\* The loop of removeDependency: the slots after filling those that name
\* module, the number of unmet slots and cache[dependency] of the last one.
RECURSIVE fillSlots(_, _, _, _, _, _)
fillSlots(s, dependencies, module, x, modules, acc) ==
  IF x > Len(dependencies) THEN [modules |-> modules, unmet |-> acc.unmet,
                                 unmetDependency |-> acc.unmetDependency]
  ELSE
    LET dependency == dependencies[x]
        filled == IF namesModule(s, module, dependency)
                    THEN setAt(modules, x, module) ELSE modules
        isUnmet == x > Len(filled) \/ filled[x] = 0
    IN fillSlots(s, dependencies, module, x + 1, filled,
         IF isUnmet
           THEN [unmet |-> acc.unmet + 1,
                 unmetDependency |-> Get(s.cache, dependency, 0)]
           ELSE acc)

isBlockedBy(s, this, module) ==
  IF s.heap[this].defined THEN FALSE
  ELSE
    LET dependencies == dependenciesOf(s, this)
        modules == s.heap[this].modules
    IN /\ \A x \in 1..Len(modules) :
            modules[x] = 0 =>
              (IF x <= Len(dependencies) THEN dependencies[x] ELSE <<>>)
                = s.heap[module].id
       /\ Len(dependencies) > 0

\* The call of the factory in P.define: its record, and its result.
factoryResult(factory, m, nth) ==
  IF factory.ret = "fresh" THEN Object("returned", m, nth)
  ELSE IF factory.ret = "fixed" THEN factory.out
  ELSE Undefined

exportsAssigned(s, current, result, adapter) == result

exportsAfter(s, current, result, adapter) ==
  IF result # Undefined THEN result
  ELSE IF adapter.exports # <<>> THEN resolve(s.global, adapter.exports)
  ELSE current

invoke(s, this, factory) ==
  LET m == s.heap[this]
      argv == [x \in 1..Len(m.modules) |-> s.heap[m.modules[x]].exports]
  IN [s EXCEPT !.heap[this] =
        [@ EXCEPT !.calls = @ + 1,
                  !.ran = Append(@, factory.fn),
                  !.argv = argv,
                  !.argModules = m.modules,
                  !.argIds = dependenciesOf(s, this),
                  !.argsDefined =
                     \A x \in 1..Len(m.modules) : s.heap[m.modules[x]].defined,
                  !.sync = this \in s.active]]

ownFactory(adapter, m) == m.factory

\* var factory = adapter && adapter.init ? adapter.init : this.factory;
factoryOf(adapter, m) ==
  IF adapter.init.ret # "none" THEN adapter.init ELSE m.factory

P_define(s, this) ==
  IF s.err \/ s.heap[this].defined THEN s
  ELSE
    LET m == s.heap[this]
        adapter == Get(s.shim, m.id, NoShim)
        factory == factoryOf(adapter, m)
    IN IF \E x \in 1..Len(m.modules) : m.modules[x] = 0
         THEN throw(s)
       ELSE
         LET s1 == IF factory.ret # "none" THEN invoke(s, this, factory)
                   ELSE s
             result == factoryResult(factory, this, s1.heap[this].calls)
             \* the function runs: this.defined is not set yet
             sb == IF s1.heap[this].calls = 1
                     THEN tie("body", s1, <<factory.body>>)
                     ELSE s1
             exports == exportsAfter(sb, sb.heap[this].exports, result,
                                     adapter)
             s2 == [sb EXCEPT
                      !.heap[this].reassigned =
                         @ \/ (sb.heap[this].defined
                                 /\ exports # sb.heap[this].exports),
                      !.heap[this].held = @ \cup {exports},
                      !.heap[this].globalThen = sb.global,
                      !.heap[this].loadedThen =
                         /\ \E cb \in {"onLoad", "define"} :
                              Get(sb.issued, <<cb, m.id>>, 0) > 0
                         /\ \A f \in sb.fetches : f.normalized # m.id,
                      !.heap[this].exports = exports,
                      !.heap[this].defined = TRUE]
             s3 == tie("notify", s2, <<this>>)
         IN IF sb.err THEN sb
            ELSE IF s3.err THEN s3
            ELSE IF dependenciesOf(s3, this) = <<>>
                    /\ s3.heap[this].modules = <<>>
              \* the timer would find nothing to remove
              THEN s3
            ELSE setTimeout(s3, "cleanup", this, <<>>)

shiftListener(callbacks) ==
  [callback |-> Head(callbacks), rest |-> Tail(callbacks)]

\* while (callbacks.length) { callbacks.pop()(this); }
popListener(callbacks) ==
  [callback |-> callbacks[Len(callbacks)],
   rest |-> SubSeq(callbacks, 1, Len(callbacks) - 1)]

notifyNobody(s, this) ==
  IF s.err THEN s ELSE [s EXCEPT !.heap[this].listeners = <<>>]

notify(s, this) ==
  IF s.err \/ s.heap[this].listeners = <<>> THEN s
  ELSE
    LET top == popListener(s.heap[this].listeners)
        s1 == [s EXCEPT !.heap[this].listeners = top.rest,
                        !.heap[this].drained = Append(@, top.callback)]
    IN tie("notify",
           tie("removeDependency", s1, <<top.callback, this>>), <<this>>)

removeDependency(s, this, module) ==
  IF s.err THEN s
  ELSE
    LET r == fillSlots(s, dependenciesOf(s, this), module, 1,
                       s.heap[this].modules,
                       [unmet |-> 0, unmetDependency |-> 0])
        s1 == [s EXCEPT !.heap[this].modules = r.modules]
        shimmed == s1.heap[this].shimmed
    IN IF r.unmet = 0
         THEN IF shimmed # <<>>
                THEN IF shimmed = s1.heap[this].id
                       THEN [loader(s1, s1.heap[this].id, "define", this)
                               EXCEPT
                                 !.heap[this].shimmed = ShimTrue,
                                 !.heap[this].started =
                                    Append(@, \A x \in DOMAIN r.modules :
                                                s1.heap[r.modules[x]]
                                                  .defined)]
                       ELSE s1
                ELSE tie("P.define", s1, <<this>>)
       ELSE IF r.unmet = 1
         THEN IF r.unmetDependency # 0
                 /\ isBlockedBy(s1, r.unmetDependency, this)
                THEN tie("removeDependency",
                         [s1 EXCEPT
                            !.heap[r.unmetDependency].broken = TRUE,
                            !.heap[r.unmetDependency].unmetAtBreak =
                               @ \cup {Cardinality(
                                  {x \in DOMAIN s1.heap[r.unmetDependency]
                                                   .modules :
                                     s1.heap[r.unmetDependency].modules[x]
                                       = 0})}],
                         <<r.unmetDependency, this>>)
                ELSE s1
       ELSE s1

addDefineListenerAtOnce(s, module, this) ==
  IF s.err THEN s ELSE tie("removeDependency", s, <<this, module>>)

addDefineListenerPushing(s, module, this) ==
  IF s.err THEN s
  ELSE [s EXCEPT !.heap[module].listeners = Append(@, this),
                 !.heap[module].registered = Append(@, this)]

\* module.addDefineListener(tie(P.removeDependency, this))
addDefineListener(s, module, this) ==
  IF s.err THEN s
  ELSE IF s.heap[module].defined
    THEN tie("removeDependency",
             [s EXCEPT !.heap[module].immediate = Append(@, this)],
             <<this, module>>)
  ELSE [s EXCEPT !.heap[module].listeners = Append(@, this),
                 !.heap[module].registered = Append(@, this)]

\* tie(onDependencyLoaded, this)(undefined, module)
onDependencyLoaded(s, this, module) == addDefineListener(s, module, this)

startLoadingAgain(s, normalized) ==
  [loader(s, normalized, "onLoad", 0)
     EXCEPT !.loading = Put(@, normalized, TRUE)]

\* if (!loading[normalized]) { ... loader(ids, onLoad); }
startLoading(s, normalized) ==
  IF Get(s.loading, normalized, FALSE) THEN s
  ELSE [loader(s, normalized, "onLoad", 0)
          EXCEPT !.loading = Put(@, normalized, TRUE)]

\* load(ids, tie(onDependencyLoaded, this))
load(s, normalized, this) ==
  IF s.err THEN s
  ELSE IF Get(s.cache, normalized, 0) # 0
    THEN onDependencyLoaded(s, this, s.cache[normalized])
  ELSE [startLoading(s, normalized) EXCEPT
          !.heap[this].queued = @ \cup {normalized},
          !.listeners = Put(@, normalized,
                            Append(Get(@, normalized, <<>>), this)),
          !.joined = Put(@, normalized, Get(@, normalized, 0) + 1)]

\* The dependencies that a shim entry declares for dependency.
shimDependencies(s, dependency) ==
  Get(s.shim, dependency, NoShim).deps

loadDependency(s, this, dependency) ==
  IF s.err THEN s
  ELSE
    LET dependencies == shimDependencies(s, dependency) IN
    IF Len(dependencies) > 0
      THEN
        LET s1 == newModule(s, dependency, dependencies, FALSE, NoFactory)
            module == Len(s1.heap)
            s2 == [s1 EXCEPT !.heap[module].shimmed = dependency]
            s3 == addDefineListener(s2, module, this)
            s4 == [s3 EXCEPT !.cache = Put(@, dependency, module)]
        IN tie("actuate", s4, <<module>>)
      ELSE tie("load", s, <<dependency, this>>)

actuateFrom(s, this, x, n) ==
  IF s.err \/ x > n THEN s
  ELSE
    LET dependency == dependenciesOf(s, this)[x] IN
    IF dependency \in Range(s.COMMON_JS_DEPENDENCIES)
      THEN tie("actuateFrom",
               setTimeout(s, "makeCommonJsDependency", this, dependency),
               <<this, x + 1, n>>)
    ELSE
      LET relativeTo == dirname(s.aliases, s.heap[this].id)
          id == alias(s.baseUrl, s.paths, dependency, relativeTo)
          s1 == [setDependency(s, this, x, id) EXCEPT
                   !.aliases = aliasRecord(s.baseUrl, s.paths, @, dependency)]
      IN tie("actuateFrom", tie("loadDependency", s1, <<this, id>>),
             <<this, x + 1, n>>)

actuate(s, this) ==
  IF s.err \/ s.heap[this].defined THEN s
  ELSE
    LET n == Len(dependenciesOf(s, this)) IN
    IF n > 0 THEN tie("actuateFrom", s, <<this, 1, n>>)
    ELSE setTimeout(s, "define", this, <<>>)

\* The value that makeCommonJsDependency gives a free variable.
commonJsOutput(s, this, dependency) ==
  IF dependency = s_require THEN Object("require", this, 0)
  ELSE IF dependency = s_exports THEN s.heap[this].exports
  ELSE IF dependency = s_module THEN Object("module", this, 0)
  ELSE Undefined

makeCommonJsDependency(s, this, dependency) ==
  LET output == commonJsOutput(s, this, dependency)
      s1 == newModule(s, dependency, <<>>, FALSE,
                      Constantly("output", output))
      module == Len(s1.heap)
  IN tie("removeDependency", tie("P.define", s1, <<module>>),
         <<this, module>>)

\* ------------------------------------------------------------------------
\* The module loader and the public API

deliverNone(s, id, module) == s

\* The loop of onLoad over listeners[id], and delete listeners[id].  The
\* handler given to setTimeout is the value of the call of f, undefined: the
\* listener has run when setTimeout is called and the timer does nothing.
deliver(s, id, module) ==
  IF s.err \/ id \notin DOMAIN s.listeners THEN s
  ELSE IF s.listeners[id] = <<>>
    THEN [s EXCEPT !.listeners = Delete(@, id)]
  ELSE
    LET f == Head(s.listeners[id])
        s1 == [s EXCEPT !.listeners[id] = Tail(@),
                        !.notified = Put(@, id, Get(@, id, 0) + 1)]
    IN tie("deliver", onDependencyLoaded(s1, f, module), <<id, module>>)

idReported(own, id) == id

\* module.id = module.id || id
idOrElse(own, id) == IF own # <<>> THEN own ELSE id

onLoad(s, id, opt_exports) ==
  LET pending == s.onLoad_module
      s1 == [s EXCEPT !.onLoad_module = 0,
                      !.loading = Delete(@, id),
                      !.completed = Put(@, id, Get(@, id, 0) + 1)]
      s2 == IF pending # 0
              THEN [s1 EXCEPT !.heap[pending].id = idOrElse(@, id),
                              !.heap[pending].adopted = @ \cup {id}]
            ELSE IF opt_exports # Undefined
              THEN newModule(s1, id, s1.COMMON_JS_DEPENDENCIES, TRUE,
                             Constantly("exports", opt_exports))
            ELSE newModule(s1, id, <<>>, FALSE, NoFactory)
      module == IF pending # 0 THEN pending ELSE Len(s2.heap)
      s3 == [s2 EXCEPT !.cache = Put(@, s2.heap[module].id, module),
                       !.heap[module].delivered = @ \cup {id}]
  IN tie("deliver", tie("actuate", s3, <<module>>), <<id, module>>)

\* The dependencies that define() gives the module: the CommonJS free
\* variables for a function with parameters and no dependencies, and the
\* ids of the require('...') calls found in its source.
RECURSIVE discovered(_, _)
discovered(dependencies, scan) ==
  IF scan = <<>> THEN dependencies
  ELSE discovered(IF Head(scan) \in Range(dependencies) THEN dependencies
                  ELSE Append(dependencies, Head(scan)),
                  Tail(scan))

definedDependencies(s, opt_dependencies, fn) ==
  LET commonJs == Len(opt_dependencies) = 0 /\ fn.arity > 0
      cjs == s.COMMON_JS_DEPENDENCIES
      dependencies ==
        IF commonJs
          THEN SubSeq(cjs, 1, IF fn.arity < Len(cjs) THEN fn.arity
                              ELSE Len(cjs))
          ELSE opt_dependencies
  IN IF commonJs \/ s_require \in Range(opt_dependencies)
       THEN discovered(dependencies, fn.scan)
       ELSE dependencies

\* The type of a JavaScript value: "undefined", "null", "zero" (the number
\* 0), "number" (another number), "string", "array", "object" or
\* "function"; a string is given with its characters.  The value in a
\* condition:
truthy(type, v) ==
  \/ type \in {"number", "array", "object", "function"}
  \/ type = "string" /\ v # <<>>

isArray(type) == type = "array"

isFunction(type) == type = "function"

isObject(type) == type \in {"array", "object", "function"}

isString(type) == type = "string"

\* function () { return factory; }
factoryFunction(types, factory) ==
  IF isFunction(types.fac) THEN factory
  ELSE Constantly("factory", Object("factory", 0, 0))

\* define(opt_id, opt_dependencies, factory); types gives the types of the
\* three arguments.
define(s, types, opt_id, opt_dependencies, factory) ==
  IF s.err THEN s
  ELSE IF truthy(types.id, opt_id) /\ ~isString(types.id) THEN throw(s)
  ELSE IF truthy(types.id, opt_id) /\ RELATIVE_PATH_RE(opt_id) THEN throw(s)
  ELSE IF truthy(types.deps, opt_dependencies) /\ ~isArray(types.deps)
    THEN throw(s)
  ELSE IF ~isObject(types.fac) THEN throw(s)
  ELSE
    LET fn == factoryFunction(types, factory)
        s1 == newModule(s, opt_id,
                        definedDependencies(s, opt_dependencies, fn),
                        FALSE, fn)
        module == Len(s1.heap)
    IN IF truthy(types.id, opt_id) /\ ~Get(s.loading, opt_id, FALSE)
         THEN setTimeout(s1, "cache", module, opt_id)
         ELSE [s1 EXCEPT !.onLoad_module = module,
                         !.heap[module].placed = TRUE]

\* require(dependencies, opt_callback) with an array and a function
requireArray(s, dependencies, opt_callback) ==
  LET s1 == newModule(s, <<>>, dependencies, FALSE, opt_callback)
      module == Len(s1.heap)
      s2 == tie("actuate", [s1 EXCEPT !.active = @ \cup {module}],
                <<module>>)
  IN [s2 EXCEPT !.active = @ \ {module}]

\* require(dependencies) with a string, called with this = the module
\* this (0 for the global object): the cache key it looks up.
requireKey(s, this, dependency) ==
  alias(s.baseUrl, s.paths, dependency,
        dirname(s.aliases, IF this = 0 THEN <<>> ELSE s.heap[this].id))

requireOrFetch(s, this, dependency) ==
  LET key == requireKey(s, this, dependency)
      module == Get(s.cache, key, 0)
  IN IF module = 0 THEN throw(startLoading(s, key))
     ELSE [s EXCEPT !.returned = s.heap[module].exports]

requireString(s, this, dependency) ==
  LET s1 == [s EXCEPT !.aliases =
                        aliasRecord(s.baseUrl, s.paths, @, dependency)]
      module == Get(s.cache, requireKey(s, this, dependency), 0)
  IN IF module = 0 THEN throw(s1)
     ELSE [s1 EXCEPT !.returned = s1.heap[module].exports]

\* require.toUrl(resourceId), called with this.id = id (<<>> for the global
\* object): the string it returns.
toUrl(s, id, resourceId) ==
  [s EXCEPT
     !.aliases = aliasRecord(s.baseUrl, s.paths, @, resourceId),
     !.returned = [k |-> "string", m |-> 0, n |-> 0,
                   p |-> alias(s.baseUrl, s.paths, resourceId,
                               dirname(s.aliases, id))]]

configAfresh(s, object) ==
  [s EXCEPT !.baseUrl = IF object.baseUrl # <<>> THEN object.baseUrl
                        ELSE <<".">>,
            !.paths = IF object.hasPaths THEN object.paths ELSE EmptyMap,
            !.shim = IF object.hasShim THEN object.shim ELSE EmptyMap]

\* require.config(object)
config(s, object) ==
  [s EXCEPT !.baseUrl = IF object.baseUrl # <<>> THEN object.baseUrl ELSE @,
            !.paths = IF object.hasPaths THEN object.paths ELSE @,
            !.shim = IF object.hasShim THEN object.shim ELSE @]

\* ------------------------------------------------------------------------
\* Timers

\* setTimeout(function () { cache[opt_id] = module; module.actuate(); }, 0)
cacheAndActuate(s, module, opt_id) ==
  tie("actuate", [s EXCEPT !.cache = Put(@, opt_id, module)], <<module>>)

\* The timer that P.define sets: both arrays are emptied.
cleanup(s, this) ==
  IF s.heap[this].shared
    THEN [s EXCEPT !.COMMON_JS_DEPENDENCIES = <<>>,
                   !.heap[this].modules = <<>>]
    ELSE [s EXCEPT !.heap[this].dependencies = <<>>,
                   !.heap[this].modules = <<>>]

runTimer(s, t) ==
  IF t.kind = "cache" THEN cacheAndActuate(s, t.m, t.dep)
  ELSE IF t.kind = "makeCommonJsDependency"
    THEN makeCommonJsDependency(s, t.m, t.dep)
  ELSE IF t.kind = "define" THEN tie("P.define", s, <<t.m>>)
  ELSE cleanup(s, t.m)

\* Timers of one delay fire in the order they were set, and a timer of
\* 100 ms fires after the timers of 0 ms that were set before it.
canFire(timerQueue, i) ==
  IF timerQueue[i].kind = "cleanup" THEN i = 1
  ELSE \A j \in 1..(i - 1) : timerQueue[j].kind = "cleanup"

removeAt(seq, i) == SubSeq(seq, 1, i - 1) \o SubSeq(seq, i + 1, Len(seq))

\* ------------------------------------------------------------------------
\* The environment: the files the backend can fetch and the calls the
\* program makes

id_a == <<"a">>
id_b == <<"b">>
id_c == <<"c">>
id_j == <<"j">>
id_m == <<"m">>
id_x == <<"x">>
id_y == <<"y">>
id_z == <<"z">>

\* A call of the public API.
NoConfig == [baseUrl |-> <<>>, hasPaths |-> FALSE, paths |-> EmptyMap,
             hasShim |-> FALSE, shim |-> EmptyMap]

\* define(id, dependencies, factory) with arguments of the given types; the
\* characters of a string and the ids of an array are id and dependencies.
CallDefineTyped(types, id, dependencies, factory) ==
  [op |-> "define", id |-> id, deps |-> dependencies, fac |-> factory,
   cfg |-> NoConfig, types |-> types]

\* define(id, dependencies, factory) with a string or no id, an array and a
\* function.
CallDefine(id, dependencies, factory) ==
  CallDefineTyped([id |-> IF id = <<>> THEN "undefined" ELSE "string",
                   deps |-> "array", fac |-> "function"],
                  id, dependencies, factory)

CallRequire(dependencies, callback) ==
  [op |-> "require", id |-> <<>>, deps |-> dependencies, fac |-> callback,
   cfg |-> NoConfig]

CallRequireString(id) ==
  [op |-> "requireString", id |-> id, deps |-> <<>>, fac |-> NoFactory,
   cfg |-> NoConfig]

CallConfig(object) ==
  [op |-> "config", id |-> <<>>, deps |-> <<>>, fac |-> NoFactory,
   cfg |-> object]

\* What the backend finds for an id: a script (the define() calls it makes
\* and the global names it sets), a value that Node's own require returns,
\* or nothing, and then the backend never calls back.
Script(defs, globals) ==
  [kind |-> "script", defs |-> defs, globals |-> globals, raw |-> Undefined]

Raw(n) ==
  [kind |-> "raw", defs |-> <<>>, globals |-> {}, raw |-> Object("raw", 0, n)]

Missing ==
  [kind |-> "missing", defs |-> <<>>, globals |-> {}, raw |-> Undefined]

Callback(fn) == Function(fn, "undefined", 0)

\* define('m', [], f) is called by the page; m.js is a script that calls
\* no define(), z.js defines an anonymous module and y.js does not exist.
WorldInline ==
  [files |-> (id_m :> Script(<<>>, {}))
          @@ (id_z :> Script(<<CallDefine(<<>>, <<>>,
                                          Function("fz", "fresh", 0))>>, {})),
   program |-> <<CallDefine(id_m, <<>>, Function("f", "fresh", 0)),
                 CallRequire(<<id_m>>, Callback("cb1")),
                 CallRequire(<<id_m>>, Callback("cb2")),
                 CallRequire(<<id_z>>, Callback("cb3")),
                 CallRequire(<<id_y>>, Callback("cb4"))>>]

\* m.js calls define('m', [], f).
WorldFile ==
  [files |-> (id_m :> Script(<<CallDefine(id_m, <<>>,
                                          Function("f", "fresh", 0))>>, {})),
   program |-> <<CallRequire(<<id_m>>, Callback("cb1")),
                 CallRequire(<<id_m>>, Callback("cb2")),
                 CallRequire(<<id_m, id_m>>, Callback("cb3")),
                 CallRequireString(id_m)>>]

\* a.js and b.js depend on each other and on nothing else.
WorldCycle ==
  [files |-> (id_a :> Script(<<CallDefine(<<>>, <<id_b>>,
                                          Function("fa", "fresh", 0))>>, {}))
          @@ (id_b :> Script(<<CallDefine(<<>>, <<id_a>>,
                                          Function("fb", "fresh", 0))>>, {})),
   program |-> <<CallRequire(<<id_a>>, Callback("cb1")),
                 CallRequire(<<id_b>>, Callback("cb2"))>>]

\* a.js and b.js depend on each other, and b.js on x.js as well; the
\* factory of b returns ret.
WorldCycleWith(ret) ==
  [files |-> (id_a :> Script(<<CallDefine(<<>>, <<id_b>>,
                                          Function("fa", "fresh", 0))>>, {}))
          @@ (id_b :> Script(<<CallDefine(<<>>, <<id_x, id_a>>,
                                          Function("fb", ret, 0))>>, {}))
          @@ (id_x :> Script(<<CallDefine(<<>>, <<>>,
                                          Function("fx", "fresh", 0))>>, {})),
   program |-> <<CallRequire(<<id_a>>, Callback("cb1")),
                 CallRequire(<<id_b, id_x>>, Callback("cb2"))>>]

\* An acyclic graph: a.js depends on c.js; b.js and c.js on nothing.
WorldGraph ==
  [files |-> (id_a :> Script(<<CallDefine(<<>>, <<id_c>>,
                                          Function("fa", "fresh", 0))>>, {}))
          @@ (id_b :> Script(<<CallDefine(<<>>, <<>>,
                                          Function("fb", "undefined", 0))>>,
                             {}))
          @@ (id_c :> Script(<<CallDefine(id_c, <<>>,
                                          Function("fc", "fresh", 0))>>, {})),
   program |-> <<CallRequire(<<id_a, id_b>>, Callback("cb1")),
                 CallRequire(<<id_b, id_c, id_b>>, Callback("cb2")),
                 CallRequire(<<id_c>>, Callback("cb3"))>>]

\* x.js is a script that calls no define(); its shim entry makes it depend
\* on j.js.
ShimOfX ==
  id_x :> [isArray |-> TRUE, deps |-> <<id_j>>, init |-> NoFactory,
           exports |-> <<>>]

WorldShim ==
  [files |-> (id_x :> Script(<<>>, {<<id_x>>}))
          @@ (id_j :> Script(<<CallDefine(<<>>, <<>>,
                                          Function("fj", "fresh", 0))>>, {})),
   program |-> <<CallConfig([NoConfig EXCEPT !.hasShim = TRUE,
                                             !.shim = ShimOfX]),
                 CallRequire(<<id_x>>, Callback("cb1")),
                 CallRequire(<<id_x>>, Callback("cb2"))>>]

\* The same program where x.js does not exist.
WorldShimMissing ==
  [files |-> (id_j :> Script(<<CallDefine(<<>>, <<>>,
                                          Function("fj", "fresh", 0))>>, {})),
   program |-> WorldShim.program]

\* Three scripts whose shim entries name the global P.Q or P.R for their
\* exports: x.js sets P and P.Q and waits for j.js, y.js sets nothing, z.js
\* sets P and P.Q and calls define() itself.
WorldExports ==
  [files |-> (id_x :> Script(<<>>, {<<<<"P">>>>, <<<<"P">>, <<"Q">>>>}))
          @@ (id_y :> Script(<<>>, {}))
          @@ (id_z :> Script(<<CallDefine(<<>>, <<>>,
                                          Function("fz", "fresh", 0))>>,
                             {<<<<"P">>>>, <<<<"P">>, <<"Q">>>>}))
          @@ (id_j :> Script(<<CallDefine(<<>>, <<>>,
                                          Function("fj", "fresh", 0))>>, {})),
   program |-> <<CallConfig([NoConfig EXCEPT
                   !.hasShim = TRUE,
                   !.shim = (id_x :> [NoShim EXCEPT !.deps = <<id_j>>,
                                                    !.exports = <<"P", ".", "Q">>])
                         @@ (id_y :> [NoShim EXCEPT
                                        !.exports = <<"P", ".", "R">>])
                         @@ (id_z :> [NoShim EXCEPT !.exports = <<"P", ".", "Q">>])]),
                 CallRequire(<<id_x, id_y>>, Callback("cb1")),
                 CallRequire(<<id_z>>, Callback("cb2"))>>]

\* Two scripts whose shim entries have an init function and that call
\* define() themselves, x.js waiting for j.js, and a script a.js that calls
\* no define().
WorldInit ==
  [files |-> (id_x :> Script(<<CallDefine(<<>>, <<>>,
                                          Function("fx", "fresh", 0))>>, {}))
          @@ (id_y :> Script(<<CallDefine(<<>>, <<>>,
                                          Function("fy", "fresh", 0))>>, {}))
          @@ (id_a :> Script(<<>>, {}))
          @@ (id_j :> Script(<<CallDefine(<<>>, <<>>,
                                          Function("fj", "fresh", 0))>>, {})),
   program |-> <<CallConfig([NoConfig EXCEPT
                   !.hasShim = TRUE,
                   !.shim = (id_x :> [NoShim EXCEPT
                                        !.deps = <<id_j>>,
                                        !.init = Function("init", "fresh",
                                                          1)])
                         @@ (id_y :> [NoShim EXCEPT
                                        !.init = Function("initOfY",
                                                          "fresh", 0)])]),
                 CallRequire(<<id_x, id_a>>, Callback("cb1")),
                 CallRequire(<<id_y>>, Callback("cb2"))>>]

\* x.js is a bundle that defines module 'm' by name; m.js defines a module
\* without a name.
WorldBundle ==
  [files |-> (id_x :> Script(<<CallDefine(id_m, <<>>,
                                          Function("fm", "fresh", 0))>>, {}))
          @@ (id_m :> Script(<<CallDefine(<<>>, <<>>,
                                          Function("f", "fresh", 0))>>, {})),
   program |-> <<CallRequire(<<id_m, id_x>>, Callback("cb1")),
                 CallRequire(<<id_x>>, Callback("cb2"))>>]

\* x.js calls no define() and its shim entry makes it depend on j.js, which
\* depends on x and on c.
WorldShimCycle ==
  [files |-> (id_x :> Script(<<>>, {<<id_x>>}))
          @@ (id_j :> Script(<<CallDefine(<<>>, <<id_x, id_c>>,
                                          Function("fj", "fresh", 2))>>, {}))
          @@ (id_c :> Script(<<CallDefine(<<>>, <<>>,
                                          Function("fc", "fresh", 0))>>, {})),
   program |-> <<CallConfig([NoConfig EXCEPT !.hasShim = TRUE,
                                             !.shim = ShimOfX]),
                 CallRequire(<<id_x>>, Callback("cb1"))>>]

\* The page defines two modules in the CommonJS style, with three and with
\* one parameter, and requires 'z', for which there is no file and which
\* the backend finds with Node's own require.
WorldCommonJs ==
  [files |-> (id_z :> Raw(1)),
   program |-> <<CallDefine(id_m, <<>>, Function("f3", "undefined", 3)),
                 CallDefine(id_b, <<>>, Function("f1", "undefined", 1)),
                 CallRequire(<<id_z>>, Callback("cb1"))>>]

\* The page calls require.config twice, with baseUrl and shim and with
\* paths only, and requires m.
WorldConfigs ==
  [files |-> (id_m :> Script(<<CallDefine(<<>>, <<>>,
                                          Function("f", "fresh", 0))>>, {})),
   program |-> <<CallConfig([NoConfig EXCEPT !.baseUrl = <<"l", "i", "b">>,
                                             !.hasShim = TRUE,
                                             !.shim = ShimOfX]),
                 CallConfig([NoConfig EXCEPT !.hasPaths = TRUE,
                                             !.paths = id_a :> id_b]),
                 CallRequire(<<id_m>>, Callback("cb1"))>>]

\* The page names a module 'x' while paths maps 'x' to 'y', and a module
\* 'a/./b', which is not in canonical form.
id_a_b == <<"a", "/", ".", "/", "b">>

WorldAlias ==
  [files |-> EmptyMap,
   program |-> <<CallConfig([NoConfig EXCEPT !.hasPaths = TRUE,
                                             !.paths = id_x :> id_y]),
                 CallDefine(id_x, <<>>, Function("f", "fresh", 0)),
                 CallRequireString(id_x),
                 CallDefine(id_a_b, <<>>, Function("g", "fresh", 0)),
                 CallRequireString(id_a_b)>>]

\* m.js depends on c.js, and the factory of m, the first time it runs,
\* calls require(['m', 'c'], cb2).
WorldNested ==
  [files |-> (id_c :> Script(<<CallDefine(<<>>, <<>>,
                                          Function("fc", "fresh", 0))>>, {}))
          @@ (id_m :> Script(<<CallDefine(<<>>, <<id_c>>,
                                 [Function("fm", "fresh", 0) EXCEPT
                                    !.body = <<CallRequire(<<id_m, id_c>>,
                                                 Callback("cb2"))>>])>>,
                             {})),
   program |-> <<CallRequire(<<id_m>>, Callback("cb1"))>>]

\* The page calls define() with arguments of the wrong types: a number for
\* the id (7, and 0), a relative id, a string for the dependencies and a
\* number for the factory.
id_dot_r == <<".", "/", "r">>

WorldInvalid ==
  [files |-> EmptyMap,
   program |->
     <<CallDefineTyped([id |-> "number", deps |-> "array",
                        fac |-> "function"],
                       <<>>, <<>>, Function("f", "fresh", 0)),
       CallDefine(id_dot_r, <<>>, Function("f", "fresh", 0)),
       CallDefineTyped([id |-> "string", deps |-> "string",
                        fac |-> "function"],
                       id_m, id_c, Function("f", "fresh", 0)),
       CallDefineTyped([id |-> "string", deps |-> "array", fac |-> "number"],
                       id_m, <<>>, NoFactory),
       CallDefineTyped([id |-> "zero", deps |-> "array", fac |-> "function"],
                       <<>>, <<>>, Function("f", "fresh", 0)),
       CallDefine(id_m, <<>>, Function("g", "fresh", 0))>>]

\* The page defines a module 'a!' and requires 'b...c'; there are no files.
id_a_bang == <<"a", "!">>
id_b_dots_c == <<"b", ".", ".", ".", "c">>

WorldCharset ==
  [files |-> EmptyMap,
   program |-> <<CallDefine(id_a_bang, <<>>, Function("f", "fresh", 0)),
                 CallRequire(<<id_b_dots_c>>, Callback("cb1"))>>]

WorldNames ==
  {"inline", "file", "cycle", "cycleFresh", "cycleUndefined", "graph",
   "shim", "shimMissing", "alias", "nested", "invalid", "charset",
   "exports", "init", "bundle", "shimCycle", "commonJs",
   "configs"}

World(name) ==
  CASE name = "inline" -> WorldInline
    [] name = "file" -> WorldFile
    [] name = "cycle" -> WorldCycle
    [] name = "cycleFresh" -> WorldCycleWith("fresh")
    [] name = "cycleUndefined" -> WorldCycleWith("undefined")
    [] name = "graph" -> WorldGraph
    [] name = "shim" -> WorldShim
    [] name = "shimMissing" -> WorldShimMissing
    [] name = "alias" -> WorldAlias
    [] name = "nested" -> WorldNested
    [] name = "invalid" -> WorldInvalid
    [] name = "charset" -> WorldCharset
    [] name = "exports" -> WorldExports
    [] name = "init" -> WorldInit
    [] name = "bundle" -> WorldBundle
    [] name = "shimCycle" -> WorldShimCycle
    [] name = "commonJs" -> WorldCommonJs
    [] name = "configs" -> WorldConfigs

fileOf(name, id) == Get(World(name).files, id, Missing)

\* ------------------------------------------------------------------------
\* The state machine

\* The number of calls of the public API that the program makes.
MaxCalls == 3

State ==
  [heap |-> heap, cache |-> cache, listeners |-> listeners,
   loading |-> loading, onLoad_module |-> onLoad_module,
   aliases |-> aliases, baseUrl |-> baseUrl, paths |-> paths, shim |-> shim,
   COMMON_JS_DEPENDENCIES |-> COMMON_JS_DEPENDENCIES, global |-> global,
   timers |-> timers, fetches |-> fetches, issued |-> issued,
   completed |-> completed, joined |-> joined, notified |-> notified,
   err |-> FALSE, error |-> "", active |-> {}, returned |-> Undefined]

Leaves(s) ==
  /\ heap' = s.heap
  /\ cache' = s.cache
  /\ listeners' = s.listeners
  /\ loading' = s.loading
  /\ onLoad_module' = s.onLoad_module
  /\ aliases' = s.aliases
  /\ baseUrl' = s.baseUrl
  /\ paths' = s.paths
  /\ shim' = s.shim
  /\ COMMON_JS_DEPENDENCIES' = s.COMMON_JS_DEPENDENCIES
  /\ global' = s.global
  /\ timers' = s.timers
  /\ fetches' = s.fetches
  /\ issued' = s.issued
  /\ completed' = s.completed
  /\ joined' = s.joined
  /\ notified' = s.notified

\* The outcome of a handler: the call of the API it was ("timer" for a
\* timer, "loaded" for a callback of the backend), whether it threw, the
\* name of the error and what it returned.
Outcome(op, id, s) ==
  [op |-> op, id |-> id, threw |-> s.err, error |-> s.error,
   value |-> s.returned]

InitIn(names) ==
  /\ heap = <<>>
  /\ cache = EmptyMap
  /\ listeners = EmptyMap
  /\ loading = EmptyMap
  /\ onLoad_module = 0
  /\ aliases = EmptyMap
  /\ baseUrl = <<".">>
  /\ paths = EmptyMap
  /\ shim = EmptyMap
  /\ COMMON_JS_DEPENDENCIES = <<s_require, s_exports, s_module>>
  /\ global = {}
  /\ timers = <<>>
  /\ fetches = {}
  /\ issued = EmptyMap
  /\ completed = EmptyMap
  /\ joined = EmptyMap
  /\ notified = EmptyMap
  /\ world \in names
  /\ made = {}
  /\ last = [op |-> "", id |-> <<>>, threw |-> FALSE, error |-> "",
             value |-> Undefined]

Init == InitIn(WorldNames)

\* A handler returns to the event loop and leaves the state s.
Returns(s, op, id) == Leaves(s) /\ last' = Outcome(op, id, s)

\* One call of define(), require() or require.config().
call(s, c) ==
  IF c.op = "define" THEN tie("define", s, <<c.types, c.id, c.deps, c.fac>>)
  ELSE IF c.op = "require" THEN requireArray(s, c.deps, c.fac)
  ELSE IF c.op = "requireString" THEN requireString(s, 0, c.id)
  ELSE config(s, c.cfg)

\* The program calls the API.
Call ==
  \E i \in DOMAIN World(world).program \ made :
    /\ Cardinality(made) < MaxCalls
    /\ Returns(tie("call", State, <<World(world).program[i]>>),
               World(world).program[i].op, World(world).program[i].id)
    /\ made' = made \cup {i}
    /\ UNCHANGED world

\* A timer fires.
Timer ==
  \E i \in DOMAIN timers :
    /\ canFire(timers, i)
    /\ Returns(tie("timer", [State EXCEPT !.timers = removeAt(@, i)],
                   <<timers[i]>>), "timer", <<>>)
    /\ UNCHANGED <<world, made>>

\* The calls that a factory makes while it runs, in order.
runBody(s, calls) ==
  IF s.err \/ calls = <<>> THEN s
  ELSE tie("body", tie("call", s, <<Head(calls)>>), <<Tail(calls)>>)

\* The define() calls of a script, in order.
runScript(s, defs) ==
  IF defs = <<>> THEN s
  ELSE tie("script",
           tie("define", s,
               <<Head(defs).types, Head(defs).id, Head(defs).deps,
                 Head(defs).fac>>),
           <<Tail(defs)>>)

\* The backend has loaded and run a script, or found a value, and calls
\* back: onLoad(ids.normalized, exports), or P.define for a shimmed module.
loaded(s, f, file) ==
  LET s1 == [runScript(s, file.defs) EXCEPT
               !.global = @ \cup file.globals, !.err = FALSE,
               !.error = ""]
  IN IF f.cb = "onLoad" THEN tie("onLoad", s1, <<f.normalized, file.raw>>)
     ELSE tie("P.define", s1, <<f.m>>)

\* tie(f, target): the handler named h applied to its arguments.
tie(h, s, a) ==
  CASE h = "actuate" -> actuate(s, a[1])
    [] h = "actuateFrom" -> actuateFrom(s, a[1], a[2], a[3])
    [] h = "loadDependency" -> loadDependency(s, a[1], a[2])
    [] h = "load" -> load(s, a[1], a[2])
    [] h = "removeDependency" -> removeDependency(s, a[1], a[2])
    [] h = "P.define" -> P_define(s, a[1])
    [] h = "notify" -> notify(s, a[1])
    [] h = "deliver" -> deliver(s, a[1], a[2])
    [] h = "onLoad" -> onLoad(s, a[1], a[2])
    [] h = "define" -> define(s, a[1], a[2], a[3], a[4])
    [] h = "script" -> runScript(s, a[1])
    [] h = "body" -> runBody(s, a[1])
    [] h = "timer" -> runTimer(s, a[1])
    [] h = "loaded" -> loaded(s, a[1], a[2])
    [] h = "call" -> call(s, a[1])

Loaded ==
  \E f \in fetches :
    /\ fileOf(world, f.normalized).kind # "missing"
    /\ Returns(tie("loaded", [State EXCEPT !.fetches = @ \ {f}],
                   <<f, fileOf(world, f.normalized)>>), "loaded", <<>>)
    /\ UNCHANGED <<world, made>>

\* The backend finds nothing and never calls back.
Failed ==
  \E f \in fetches :
    /\ fileOf(world, f.normalized).kind = "missing"
    /\ fetches' = fetches \ {f}
    /\ last' = [op |-> "failed", id |-> <<>>, threw |-> FALSE, error |-> "",
                value |-> Undefined]
    /\ UNCHANGED <<heap, cache, listeners, loading, onLoad_module, aliases,
                   baseUrl, paths, shim, COMMON_JS_DEPENDENCIES, global,
                   timers, issued, completed, joined, notified, world,
                   made>>

Next == Call \/ Timer \/ Loaded \/ Failed

Spec == Init /\ [][Next]_vars

\* The same program where every fetch is of a file that exists, every
\* fetch is answered and every timer fires.
FairWorlds == {"file", "cycle", "graph"}

FairInit == InitIn(FairWorlds)

FairNext == Call \/ Timer \/ Loaded

\* Timers that are set fire and fetches that are started are answered:
\* weak fairness of Timer and of Loaded, written with what enables them (a
\* timer is set, a fetch of a file that exists is in flight) and with what
\* their steps leave in last.
TimerStep == timers # <<>> /\ last'.op = "timer"

answerable == {f \in fetches : fileOf(world, f.normalized).kind # "missing"}

LoadedStep == answerable # {} /\ last'.op = "loaded"

Fairness ==
  /\ []<>(timers = <<>>) \/ []<><<TimerStep>>_vars
  /\ []<>(answerable = {}) \/ []<><<LoadedStep>>_vars

FairSpec == FairInit /\ [][FairNext]_vars /\ Fairness

\* ------------------------------------------------------------------------
\* Identifier resolution on its own: the page configures the loader and
\* calls require.toUrl, from the global object and from modules.

\* The ids of the modules that call require.toUrl; <<>> is the global object.
Anchors == {<<>>, <<"a">>, <<"a", "/", "b">>}

ResourceIds ==
  {<<"a">>, <<"x">>, <<"y">>,
   <<"a", "/", "b", "/", "c">>,
   <<"a", "/", ".", "/", "b">>,
   <<".", "/", "a">>,
   <<".", ".", "/", "a">>,
   <<".", ".", "/", ".", ".", "/", "a">>,
   <<".", "/", "a", "/", ".", ".", "/", ".", ".", "/", ".", ".", "/", "b">>,
   <<"/", "a", "b", "/", "c">>,
   <<".", "/", "a", "/", ".", ".">>,
   <<"a", "p", "p", "/", "w", "i", "d", "g", "e", "t">>,
   <<".", ".", "/", "a", "p", "p", "l", "e", "/", "x">>}

\* The objects given to require.config.
Configs ==
  {[NoConfig EXCEPT
      !.baseUrl = <<"l", "i", "b">>, !.hasPaths = TRUE,
      !.paths = <<"a", "p", "p">> :> <<"s", "r", "c", "/", "a", "p", "p">>],
   [NoConfig EXCEPT
      !.hasPaths = TRUE,
      !.paths = (<<"a", "/">> :> <<"x">>)
                @@ (<<"a", "/", "b", "/">> :> <<"y">>)],
   [NoConfig EXCEPT
      !.hasPaths = TRUE, !.paths = (id_x :> id_y) @@ (id_y :> id_z)],
   [NoConfig EXCEPT !.baseUrl = <<".">>, !.hasPaths = TRUE,
                    !.paths = EmptyMap],
   [NoConfig EXCEPT !.baseUrl = <<"a", "p", "p">>, !.hasPaths = TRUE,
                    !.paths = EmptyMap]}

IdInit == InitIn({"ids"})

IdConfig ==
  \E object \in Configs :
    /\ Returns(config(State, object), "config", <<>>)
    /\ UNCHANGED <<world, made>>

ToUrl ==
  \E id \in Anchors, resourceId \in ResourceIds :
    /\ Returns(toUrl(State, id, resourceId),
               IF id = <<>> THEN "toUrl" ELSE "toUrlFrom", resourceId)
    /\ UNCHANGED <<world, made>>

IdNext == IdConfig \/ ToUrl

IdSpec == IdInit /\ [][IdNext]_vars

\* ------------------------------------------------------------------------
\* Observations

\* The modules whose factory is the function fn, and those of them whose
\* factory has been called.
modulesOf(fn) == {m \in DOMAIN heap : heap[m].factory.fn = fn}

invoked(fn) == {m \in modulesOf(fn) : heap[m].calls > 0}

\* The module that was given the id by define() or by onLoad.
modulesNamed(id) == {m \in DOMAIN heap : heap[m].id = id}

\* The callbacks that the programs give to require.
Callbacks == {"cb1", "cb2", "cb3", "cb4"}

\* The worlds whose dependency graph has no cycle and whose files all exist.
Acyclic == {"file", "graph"}

\* The program has made its calls, no timer is set and no fetch is in flight.
Done ==
  /\ made = DOMAIN World(world).program \/ Cardinality(made) = MaxCalls
  /\ timers = <<>>
  /\ fetches = {}

\* The sequence in the opposite order.
reverse(seq) == [x \in 1..Len(seq) |-> seq[Len(seq) + 1 - x]]

\* How many times c occurs in the sequence.
count(seq, c) == Cardinality({x \in DOMAIN seq : seq[x] = c})

\* The modules that have id among their dependencies: in the array, or in
\* the array as it was when the factory was called.
dependants(id) ==
  {m \in DOMAIN heap :
     id \in Range(IF heap[m].shared THEN COMMON_JS_DEPENDENCIES
                  ELSE heap[m].dependencies) \cup Range(heap[m].argIds)}

\* The call of the program that a step makes.
calling(i) == i \in made' \ made

\* A call of define() with an id that is given and is not a string or is
\* relative, with dependencies that are given and are not an array, or with
\* a factory that is neither a function nor an object.
invalidDefine(c) ==
  /\ c.op = "define"
  /\ \/ c.types.id \notin {"undefined", "string"}
     \/ c.types.id = "string" /\ RELATIVE_PATH_RE(c.id)
     \/ c.types.deps \notin {"undefined", "array"}
     \/ ~isObject(c.types.fac)

\* The identifiers that the function inside AmdId.isValid accepts: no
\* character other than a letter, a dot and a slash, no three dots in a row,
\* and a letter somewhere.
Letters == {Alphabet[i] : i \in 4..Len(Alphabet)}

invalid(s) ==
  \/ \E i \in 1..Len(s) : s[i] \notin Letters \cup {".", "/"}
  \/ \E i \in 1..(Len(s) - 2) : s[i] = "." /\ s[i + 1] = "." /\ s[i + 2] = "."

useable(s) == \E i \in 1..Len(s) : s[i] \in Letters

isValid(s) == s # <<>> /\ ~invalid(s) /\ useable(s)

\* ------------------------------------------------------------------------
\* Properties

\* C1: once define('m', [], f) has been called, f is invoked exactly once
\* over the whole execution, whatever require(['m'], cb) calls are made
\* before m is defined and in whatever order timers fire and fetches
\* complete.  Stated at the end of the execution.
C1_FactoryInvokedExactlyOnce ==
  (world \in {"inline", "file"} /\ Done /\ modulesOf("f") # {})
    => /\ Cardinality(invoked("f")) = 1
       /\ \A m \in modulesOf("f") : heap[m].calls <= 1

\* C2: when a.js depends on b only and b.js on a only, and both files are
\* fetched, then after require(['a'], cb1) both modules are defined and cb1
\* is invoked in the end: the loader does not stop before that.
C2_CycleCompletes ==
  (world = "cycle" /\ Done /\ modulesOf("cb1") # {})
    => /\ invoked("cb1") # {}
       /\ \E m \in modulesNamed(id_a) : heap[m].defined
       /\ \E m \in modulesNamed(id_b) : heap[m].defined

C3_ExportsNeverReplaced ==
  \A a \in DOMAIN heap :
    (heap[a].broken /\ heap[a].calls > 0) =>
      \A x \in 1..Len(heap[a].argModules) :
        heap[heap[a].argModules[x]].defined =>
          heap[heap[a].argModules[x]].exports = heap[a].argv[x]

\* The factory that P.define calls for module m returns undefined and no
\* shim entry names a global for the exports of m.
keepsExports(m) ==
  /\ Get(shim, heap[m].id, NoShim).exports = <<>>
  /\ Get(shim, heap[m].id, NoShim).init.ret = "none"
  /\ heap[m].factory.ret \in {"undefined", "none"}

\* C3, amended: it is so when the factory of b returns undefined and no shim
\* gives b its exports; P.define replaces the exports of b otherwise.
C3_ExportsKeptWhenFactoryReturnsNothing ==
  \A a \in DOMAIN heap :
    (heap[a].broken /\ heap[a].calls > 0) =>
      \A x \in 1..Len(heap[a].argModules) :
        (heap[heap[a].argModules[x]].defined
           /\ keepsExports(heap[a].argModules[x])) =>
          heap[heap[a].argModules[x]].exports = heap[a].argv[x]

C3_Witness ==
  /\ world = "cycleUndefined"
  /\ \E a \in modulesNamed(id_a) : \E b \in modulesNamed(id_b) :
       /\ heap[a].broken /\ heap[a].calls = 1 /\ ~heap[a].argsDefined
       /\ heap[a].argModules = <<b>>
       /\ heap[b].defined /\ heap[b].calls = 1
       /\ heap[b].exports = heap[a].argv[1]

\* C4: a factory whose module did not have a slot filled by the cycle break
\* of removeDependency is called only when every module in its slots is
\* defined.
C4_FactoryAfterDependencies ==
  \A m \in DOMAIN heap :
    (heap[m].calls > 0 /\ ~heap[m].broken) => heap[m].argsDefined

C4_Witness ==
  /\ world = "graph"
  /\ \E a \in modulesNamed(id_a) :
       /\ heap[a].calls = 1 /\ ~heap[a].broken /\ heap[a].argsDefined
       /\ heap[a].argIds = <<id_c>>
  /\ \E m \in invoked("cb1") : Len(heap[m].argModules) = 2

\* C5: when a factory or a callback of require is called, its i-th argument
\* is the exports of the module that its i-th dependency names, for every
\* i, also when an id is listed twice.
C5_ArgumentsInDeclarationOrder ==
  \A m \in DOMAIN heap :
    heap[m].calls > 0 =>
      /\ Len(heap[m].argv) = Len(heap[m].argIds)
      /\ Len(heap[m].argModules) = Len(heap[m].argIds)
      /\ \A x \in 1..Len(heap[m].argIds) :
           /\ heap[heap[m].argModules[x]].id = heap[m].argIds[x]
           /\ heap[m].argv[x] \in heap[heap[m].argModules[x]].held

C5_Witness ==
  /\ world = "graph"
  /\ \E m \in invoked("cb2") :
       /\ heap[m].argIds = <<id_b, id_c, id_b>>
       /\ heap[m].argModules[1] = heap[m].argModules[3]
       /\ heap[m].argModules[1] # heap[m].argModules[2]
       /\ heap[m].argModules[2] < heap[m].argModules[1]

\* C7: the callback of require(array, callback) is never called before
\* that call of require returns.
C7_CallbackNeverSynchronous ==
  \A fn \in Callbacks : \A m \in invoked(fn) : ~heap[m].sync

\* The calls of the backend for id, with either callback.
backendCalls(id) ==
  Get(issued, <<"onLoad", id>>, 0) + Get(issued, <<"define", id>>, 0)

fetched == {k[2] : k \in DOMAIN issued}

\* C8: the backend is called at most once for each id.
C8_AtMostOneFetch ==
  \A id \in fetched : backendCalls(id) <= 1

\* C9: while a fetch of id is in flight, load does not call the backend for
\* id again; the callback of each request is pushed on listeners[id], and
\* all of them have been called when the fetch has completed.
C9_InFlightFetchIsJoined ==
  \A id \in fetched \cup DOMAIN listeners \cup DOMAIN joined :
    /\ Get(issued, <<"onLoad", id>>, 0) <= Get(completed, id, 0) + 1
    /\ Get(loading, id, FALSE) <=>
         Get(issued, <<"onLoad", id>>, 0) = Get(completed, id, 0) + 1
    /\ Get(joined, id, 0) =
         Get(notified, id, 0) + Len(Get(listeners, id, <<>>))
    /\ Get(listeners, id, <<>>) # <<>> => Get(loading, id, FALSE)

C9_Witness ==
  /\ world = "file"
  /\ Get(joined, id_m, 0) >= 2
  /\ Get(notified, id_m, 0) = Get(joined, id_m, 0)
  /\ Get(issued, <<"onLoad", id_m>>, 0) = 1
  /\ ~Get(loading, id_m, FALSE)

\* C10: after define('x', ...) and once x is defined, require('x') returns
\* the exports of x, whatever baseUrl and paths are and however x is
\* written.
C10_RequireReturnsDefinedExports ==
  (last.op = "requireString"
     /\ \E m \in modulesNamed(last.id) : heap[m].defined)
    => /\ ~last.threw
       /\ \E m \in modulesNamed(last.id) : last.value = heap[m].exports

\* C11: require(id) with a string id that has no entry in the cache raises
\* a ReferenceError before it returns, and returns no value.
C11_RequireUncachedRaisesReferenceError ==
  (last.op = "requireString"
     /\ requireKey(State, 0, last.id) \notin DOMAIN cache)
    => /\ last.threw
       /\ last.error = "ReferenceError"
       /\ last.value = Undefined

\* C12: require(id) with a string id starts no fetch and leaves the cache,
\* the loading set and the listeners map as they were, whether the id is
\* cached or not.
C12_RequireStringStartsNothing ==
  [][last'.op = "requireString" =>
       /\ cache' = cache
       /\ loading' = loading
       /\ listeners' = listeners
       /\ fetches' = fetches
       /\ issued' = issued]_vars

C12_Witness ==
  /\ world = "file"
  /\ last.op = "requireString"
  /\ ~last.threw
  /\ \E m \in modulesNamed(id_m) :
       heap[m].defined /\ last.value = heap[m].exports
  /\ cache # EmptyMap

\* C13: the define-listeners of a module are called in the reverse of the
\* order in which addDefineListener pushed them: none before the module is
\* defined, and then the last one pushed first.
C13_ListenersRunInReverseOrder ==
  \A m \in DOMAIN heap :
    /\ heap[m].registered = heap[m].listeners \o reverse(heap[m].drained)
    /\ ~heap[m].defined => heap[m].drained = <<>>

C13_Witness ==
  \E m \in DOMAIN heap :
    /\ heap[m].defined
    /\ Len(heap[m].registered) = 2
    /\ heap[m].registered[1] < heap[m].registered[2]
    /\ heap[m].drained = <<heap[m].registered[2], heap[m].registered[1]>>
    /\ heap[m].listeners = <<>>

\* C14: every define-listener of a module that is defined has been called
\* exactly once: the loop of P.define has called each listener that was
\* pushed while the module was not defined as many times as it was pushed,
\* a listener that comes once the module is defined is called at once and is
\* not pushed, and the list of a defined module is empty.
C14_ListenersCalledExactlyOnce ==
  \A m \in DOMAIN heap :
    IF heap[m].defined
      THEN /\ heap[m].listeners = <<>>
           /\ \A c \in DOMAIN heap :
                count(heap[m].drained, c) = count(heap[m].registered, c)
      ELSE /\ heap[m].immediate = <<>>
           /\ \A c \in DOMAIN heap :
                /\ count(heap[m].drained, c) = 0
                /\ count(heap[m].listeners, c) = count(heap[m].registered, c)

C14_Witness ==
  /\ world = "file"
  /\ \E m \in modulesNamed(id_m) :
       /\ heap[m].defined
       /\ heap[m].listeners = <<>>
       /\ Len(heap[m].drained) >= 1
       /\ Len(heap[m].immediate) >= 1
       /\ \A c \in Range(heap[m].drained) \cup Range(heap[m].immediate) :
            heap[c].calls = 1

\* C15: the factory of a Module is called at most once, whatever calls of
\* removeDependency and of define reach the module, also while its factory
\* runs.
C15_FactoryCalledAtMostOnce ==
  \A m \in DOMAIN heap : heap[m].calls <= 1

\* C16: a module that is defined stays defined, and no operation gives its
\* exports another value once it is defined: not between two states, and
\* not inside the handler that defines it.
C16_DefinedIsTerminal ==
  /\ [](\A m \in DOMAIN heap : ~heap[m].reassigned)
  /\ [][\A m \in DOMAIN heap :
          heap[m].defined =>
            heap'[m].defined /\ heap'[m].exports = heap[m].exports]_vars

\* C17: once cache[id] is a module that is defined, cache[id] is that module
\* in every later state: no operation removes or replaces the entry.
C17_CacheEntryIsStable ==
  [][\A id \in DOMAIN cache :
       heap[cache[id]].defined =>
         id \in DOMAIN cache' /\ cache'[id] = cache[id]]_vars

\* C18: when the backend never answers the fetch of an id, no module that
\* has the id among its dependencies is defined or has its factory called,
\* the backend is not called for the id a second time, and the id stays in
\* the loading set.
C18_UnansweredFetchBlocksForever ==
  \A id \in fetched :
    fileOf(world, id).kind = "missing" =>
      /\ \A m \in dependants(id) : ~heap[m].defined /\ heap[m].calls = 0
      /\ backendCalls(id) <= 1
      /\ Get(loading, id, FALSE)

\* C19: define() with an id that is not a string, a relative id,
\* dependencies that are not an array or a factory that is neither a
\* function nor an object throws before it returns, and then leaves the
\* cache, the loading set, the listeners map and onLoad.module as they were
\* and sets no timer.
C19_DefineRejectsInvalidArguments ==
  [][\A i \in DOMAIN World(world).program :
       (calling(i) /\ invalidDefine(World(world).program[i])) =>
         /\ last'.threw
         /\ UNCHANGED <<cache, loading, listeners, onLoad_module, timers>>
    ]_vars

\* C20: an identifier with a character outside the accepted set, or with
\* three dots in a row, is rejected with an error when it is registered, and
\* no such identifier is a key of the cache or is given to the backend.
C20_InvalidIdentifierRejected ==
  /\ (last.op = "define" /\ last.id # <<>> /\ ~isValid(last.id))
       => last.threw
  /\ \A id \in DOMAIN cache : isValid(id)
  /\ \A id \in fetched : isValid(id)

\* C21: resolving an id that begins with './' or '../' from the global
\* object, where there is no id to resolve it against, is an error.
C21_RelativeWithoutAnchorIsError ==
  (last.op = "toUrl" /\ RELATIVE_PATH_RE(last.id)) => last.threw

\* C24: resolving the id that a resolution returned gives that id again,
\* for every valid id, every baseUrl and every paths.
C24_ResolutionIdempotent ==
  (last.op \in {"toUrl", "toUrlFrom"} /\ isValid(last.id)) =>
    alias(baseUrl, paths, last.value.p, <<>>) = last.value.p

\* C25: the id that a relative id resolves to has no term '.' or '..' and
\* no empty term, whatever module it is resolved from, also when the id has
\* more '..' terms than there are directories above it.
C25_NoDotSegments ==
  (last.op \in {"toUrl", "toUrlFrom"} /\ RELATIVE_PATH_RE(last.id)) =>
    LET rest == substr(last.value.p, protocolLength(last.value.p))
        terms == IF rest = <<>> THEN <<>> ELSE split(rest)
    IN \A x \in DOMAIN terms : terms[x] \notin {<<".">>, <<".", ".">>, <<>>}

C25_Witness ==
  /\ last.op = "toUrlFrom"
  /\ StartsWith(last.id, <<".", ".", "/", ".", ".", "/">>)
  /\ last.value.p = <<"/", "a">>
  /\ ~last.threw

\* C26: when several keys of paths are prefixes of the id, alias uses the
\* longest of them: the resolved id starts with its target.
C26_LongestAliasWins ==
  LET matches == {k \in DOMAIN paths : StartsWith(last.id, k)}
  IN (last.op \in {"toUrl", "toUrlFrom"} /\ matches # {}) =>
    \E k \in matches :
      /\ \A j \in matches : Len(j) <= Len(k)
      /\ pathsBySpecificity(paths)[aliasMatch(paths, last.id)] = k
      /\ StartsWith(last.value.p, paths[k])

C26_Witness ==
  /\ last.op \in {"toUrl", "toUrlFrom"}
  /\ Cardinality({k \in DOMAIN paths : StartsWith(last.id, k)}) = 2
  /\ last.id = <<"a", "/", "b", "/", "c">>
  /\ last.value.p = <<"y", "/", "c">>

\* C27: after require.config({baseUrl: 'lib', paths: {app: 'src/app'}}),
\* require.toUrl('app/widget') returns 'src/app/widget': the target of the
\* alias and the rest of the id, and not an id under lib/app.
C27_ToUrlUsesAliasTarget ==
  (/\ last.op = "toUrl"
   /\ last.id = <<"a", "p", "p", "/", "w", "i", "d", "g", "e", "t">>
   /\ baseUrl = <<"l", "i", "b">>
   /\ DOMAIN paths = {<<"a", "p", "p">>})
    => /\ ~last.threw
       /\ last.value.p = paths[<<"a", "p", "p">>] \o <<"/">>
                           \o <<"w", "i", "d", "g", "e", "t">>

C27_Witness ==
  /\ last.op = "toUrl"
  /\ baseUrl = <<"l", "i", "b">>
  /\ <<"a", "p", "p">> \in DOMAIN paths
  /\ last.value.p = <<"s", "r", "c", "/", "a", "p", "p", "/",
                      "w", "i", "d", "g", "e", "t">>

\* C22, as the specification states it: when P.define defines a module
\* whose shim entry has an exports path and no init, the exports of the
\* module are what the walk down that path from the global object gives at
\* that moment (undefined when a name is missing), the backend has by then
\* reported the script of the module as loaded, and nothing is thrown.
C22_ShimExportsAreTheGlobal ==
  [][\A m \in DOMAIN heap' :
       LET adapter == Get(shim, heap'[m].id, NoShim)
       IN (/\ heap'[m].defined
           /\ m \in DOMAIN heap => ~heap[m].defined
           /\ adapter.init.ret = "none"
           /\ adapter.exports # <<>>)
            => /\ heap'[m].exports
                    = resolve(heap'[m].globalThen, adapter.exports)
               /\ heap'[m].loadedThen
               /\ ~last'.threw]_vars

\* C22, amended: it is so when the script of the module has passed no
\* factory to define() or one that returns undefined; the value that such
\* a factory returns is the exports otherwise.
C22_ShimExportsWhenFactoryGivesNone ==
  [][\A m \in DOMAIN heap' :
       LET adapter == Get(shim, heap'[m].id, NoShim)
       IN (/\ heap'[m].defined
           /\ m \in DOMAIN heap => ~heap[m].defined
           /\ adapter.init.ret = "none"
           /\ adapter.exports # <<>>
           /\ heap'[m].factory.ret \in {"none", "undefined"})
            => /\ heap'[m].exports
                    = resolve(heap'[m].globalThen, adapter.exports)
               /\ heap'[m].loadedThen
               /\ ~last'.threw]_vars

\* x.js has given P.Q for the exports of x, and y.js, which sets no P.R,
\* undefined for the exports of y.
C22_Witness ==
  \E m, n \in DOMAIN heap :
    /\ heap[m].id = id_x /\ heap[m].defined /\ heap[m].loadedThen
    /\ heap[m].exports = resolve(global, <<"P", ".", "Q">>)
    /\ heap[m].exports # Undefined
    /\ heap[n].id = id_y /\ heap[n].defined /\ heap[n].loadedThen
    /\ Get(shim, id_y, NoShim).exports = <<"P", ".", "R">>
    /\ heap[n].exports = Undefined

\* C23: when the shim entry of a module has an init function, every
\* function that P.define applies for the module is init, applied to the
\* exports of the modules of the dependency ids in order, and never the
\* factory that the script of the module passed to define().
C23_ShimInitIsTheFactory ==
  [][\A m \in DOMAIN heap' :
       LET adapter == Get(shim, heap'[m].id, NoShim)
           before == IF m \in DOMAIN heap THEN heap[m].calls ELSE 0
       IN (heap'[m].defined /\ heap'[m].calls > before
             /\ adapter.init.ret # "none")
            => /\ heap'[m].ran = <<adapter.init.fn>>
               /\ heap'[m].factory.fn \notin Range(heap'[m].ran)
               /\ Len(heap'[m].argv) = Len(heap'[m].argIds)
               /\ \A x \in DOMAIN heap'[m].argv :
                    /\ heap'[heap'[m].argModules[x]].id = heap'[m].argIds[x]
                    /\ heap'[m].argv[x]
                         = heap'[heap'[m].argModules[x]].exports]_vars

\* init has run for x.js with the exports of j.js and for y.js, both of
\* which called define() with a factory of their own.
C23_Witness ==
  \E m, n \in DOMAIN heap :
    /\ heap[m].id = id_x /\ heap[m].ran = <<"init">>
    /\ heap[m].argIds = <<id_j>> /\ Len(heap[m].argv) = 1
    /\ heap[n].id = id_y /\ heap[n].ran = <<"initOfY">>
    /\ heap[n].factory.fn = "fy"

\* C28: every key that a step adds to cache is a canonical id: resolving it
\* under the baseUrl and paths then in force gives the key itself.
C28_CacheKeysAreCanonical ==
  [][\A id \in DOMAIN cache' \ DOMAIN cache :
       alias(baseUrl', paths', id, <<>>) = id]_vars

\* C29: removeDependency applies the cycle break only to a module that has
\* an empty slot, and isBlockedBy answers false for a module that has none.
C29_CycleBreakNeedsAnEmptySlot ==
  /\ \A d \in DOMAIN heap : \A k \in heap[d].unmetAtBreak : k >= 1
  /\ \A d, m \in DOMAIN heap :
       count(heap[d].modules, 0) = 0 => ~isBlockedBy(State, d, m)

\* C30: when onLoad(id) finds a module in onLoad.module, the module keeps
\* the id it was given in define() if it was given one and gets the id
\* that onLoad reports otherwise, and cache holds the module under that id
\* when the handler returns.
C30_ExplicitIdWinsOverReported ==
  [][\A m \in DOMAIN heap' :
       \A id \in heap'[m].adopted
                  \ (IF m \in DOMAIN heap THEN heap[m].adopted ELSE {}) :
         /\ heap'[m].id = IF heap'[m].given # <<>> THEN heap'[m].given
                           ELSE id
         /\ Get(cache', heap'[m].id, 0) = m]_vars

\* onLoad('x') has found the module that x.js defined as 'm': the module
\* is 'm' and cache holds it under 'm', not under 'x'.
C30_Witness ==
  \E m \in DOMAIN heap :
    /\ heap[m].given = id_m /\ heap[m].adopted = {id_x}
    /\ heap[m].id = id_m /\ Get(cache, id_m, 0) = m
    /\ Get(cache, id_x, 0) # m

\* C31: once onLoad(X) has run, cache holds a module under X, and every
\* slot for X of a module that waited for the fetch of X is filled as soon
\* as the module that onLoad(X) delivered is defined, whatever id the
\* script gave that module.
C31_CompletedFetchFillsSlots ==
  /\ \A id \in DOMAIN completed : Get(cache, id, 0) # 0
  /\ \A d, w \in DOMAIN heap :
       (heap[d].defined /\ ~heap[w].defined) =>
         \A x \in DOMAIN heap[w].modules :
           (x <= Len(dependenciesOf(State, w))
              /\ dependenciesOf(State, w)[x] \in heap[d].delivered
              /\ dependenciesOf(State, w)[x] \in heap[w].queued)
             => heap[w].modules[x] # 0

\* C32: a module that define() has stored in onLoad.module is found there
\* by exactly one call of onLoad: it never gets two ids, and it never leaves
\* onLoad.module without having been found.
C32_PendingRegistrationConsumedOnce ==
  \A m \in DOMAIN heap :
    heap[m].placed =>
      /\ Cardinality(heap[m].adopted) <= 1
      /\ onLoad_module # m => heap[m].adopted # {}

\* C33, as the specification states it: removeDependency calls the backend
\* for a module that loadDependency made for a shim entry with dependencies
\* only when every dependency of the entry has been defined, and once for
\* each such module.
C33_ShimFetchAfterDependenciesDefined ==
  \A m \in DOMAIN heap :
    heap[m].shimmed # <<>> =>
      /\ Len(heap[m].started) <= 1
      /\ heap[m].shimmed = ShimTrue <=> Len(heap[m].started) = 1
      /\ \A x \in DOMAIN heap[m].started : heap[m].started[x]

\* C33, amended: every slot of the module is filled by then; the module in
\* a slot is defined unless the cycle break of removeDependency has filled
\* the slot, for a module and a dependency that wait for each other.
C33_ShimFetchAfterSlotsFilled ==
  \A m \in DOMAIN heap :
    heap[m].shimmed # <<>> =>
      /\ Len(heap[m].started) <= 1
      /\ heap[m].shimmed = ShimTrue <=> Len(heap[m].started) = 1
      /\ \A x \in DOMAIN heap[m].started :
           ~heap[m].broken => heap[m].started[x]

\* Two modules made for the shim entry of x have each called the backend
\* once, after j was defined.
C33_Witness ==
  \E m, n \in DOMAIN heap :
    /\ m # n
    /\ heap[m].id = id_x /\ heap[n].id = id_x
    /\ heap[m].started = <<TRUE>> /\ heap[n].started = <<TRUE>>
    /\ ~heap[m].broken /\ ~heap[n].broken

\* C34: a function with k parameters, 1 <= k <= 3, that define() was given
\* with no dependencies is called with the first k of require, exports and
\* module: the require of the module, the object that is the exports of the
\* module, and the Module.
C34_CommonJsArguments ==
  \A m \in DOMAIN heap :
    (/\ heap[m].calls > 0
     /\ heap[m].factory.arity \in 1..3
     /\ \E i \in made :
          /\ World(world).program[i].op = "define"
          /\ World(world).program[i].deps = <<>>
          /\ World(world).program[i].fac.fn = heap[m].factory.fn)
      => /\ Len(heap[m].argv) >= heap[m].factory.arity
         /\ \A x \in 1..heap[m].factory.arity :
              heap[m].argv[x] =
                Object(<<"require", "exports", "module">>[x], m, 0)
         /\ Object("exports", m, 0) \in heap[m].held

\* C37: COMMON_JS_DEPENDENCIES is 'require', 'exports', 'module' in every
\* state, also after the cleanup timer of a module that onLoad made from the
\* exports that the backend supplied.
C37_CommonJsNamesConstant ==
  COMMON_JS_DEPENDENCIES = <<s_require, s_exports, s_module>>

\* C35: a call of define() by the program applies no factory and leaves
\* cache as it is; when it does not throw it has made one module, not
\* defined, and has either set the timer that will cache and actuate it or
\* stored it in onLoad.module.
C35_DefineDefers ==
  [][last'.op = "define" =>
       /\ cache' = cache
       /\ \A m \in DOMAIN heap' :
            heap'[m].calls = IF m \in DOMAIN heap THEN heap[m].calls ELSE 0
       /\ ~last'.threw =>
            /\ Len(heap') = Len(heap) + 1
            /\ ~heap'[Len(heap')].defined
            /\ \/ /\ timers' = Append(timers,
                                       [kind |-> "cache", m |-> Len(heap'),
                                        dep |-> heap'[Len(heap')].id])
                  /\ onLoad_module' = onLoad_module
               \/ /\ timers' = timers
                  /\ onLoad_module' = Len(heap')]_vars

\* define('m', ...) has returned: its timer is set and cache has no 'm'.
C35_Witness ==
  /\ last.op = "define" /\ ~last.threw
  /\ heap[Len(heap)].id = id_m
  /\ \E x \in DOMAIN timers :
       timers[x].kind = "cache" /\ timers[x].m = Len(heap)
  /\ id_m \notin DOMAIN cache

\* C36: between handlers, every id whose list in listeners is not empty is
\* in loading.
C36_ListenersOnlyWhileLoading ==
  \A id \in DOMAIN listeners :
    listeners[id] # <<>> => Get(loading, id, FALSE)

\* onLoad has emptied a list of two or more listeners and taken its id out
\* of loading while listeners wait for another id that is in loading.
C36_Witness ==
  \E id, other \in DOMAIN joined :
    /\ Get(completed, id, 0) >= 1 /\ joined[id] >= 2
    /\ id \notin DOMAIN listeners /\ ~Get(loading, id, FALSE)
    /\ other \in DOMAIN listeners /\ listeners[other] # <<>>
    /\ Get(loading, other, FALSE)

\* C38: require.config(object) gives baseUrl, paths and shim the values
\* that object has for them and leaves each one that object does not have,
\* or has with a falsy value, as it was; cache, loading and listeners are
\* as before the call.
C38_ConfigChangesOnlyWhatIsGiven ==
  [][\A i \in DOMAIN World(world).program :
       (calling(i) /\ World(world).program[i].op = "config") =>
         LET object == World(world).program[i].cfg
         IN /\ baseUrl' = IF object.baseUrl # <<>> THEN object.baseUrl
                           ELSE baseUrl
            /\ paths' = IF object.hasPaths THEN object.paths ELSE paths
            /\ shim' = IF object.hasShim THEN object.shim ELSE shim
            /\ cache' = cache
            /\ loading' = loading
            /\ listeners' = listeners
            /\ ~last'.threw]_vars

\* The second call of require.config, with paths only, has kept the baseUrl
\* and the shim of the first, with a module in cache.
C38_Witness ==
  /\ last.op = "config"
  /\ baseUrl = <<"l", "i", "b">>
  /\ paths = id_a :> id_b
  /\ shim = ShimOfX
  /\ cache # EmptyMap

\* C39: the fully qualified id of the id that normalize returns is the
\* fully qualified id of the id it was given, from the same place, also
\* when that id lies outside the base directory and begins with the same
\* characters.
C39_CanonicalIdDeterminesUrl ==
  last.op \in {"toUrl", "toUrlFrom"} =>
    \A id \in Anchors :
      LET relativeTo == dirname(aliases, id)
      IN ((last.op = "toUrl" <=> id = <<>>)
            /\ last.value.p = normalize(baseUrl, last.id, relativeTo))
           => fqid(baseUrl, last.value.p, <<>>)
                = fqid(baseUrl, last.id, relativeTo)

====
